---- MODULE Spec2Model ----
(***************************************************************************)
(* tarlayer-split: the planner buildTarPlan, the rewriter createNewTars,   *)
(* the index reader generateSlice and the driver split, as one state       *)
(* machine.  Go indices are kept 0-based (i, endIndex); the TLA+ sequence  *)
(* data is 1-based, so data[i] of the source is At(data, i) here.          *)
(*                                                                         *)
(* Byte quantities are counted in tar blocks of 512 bytes, so that the two *)
(* int64 literals of the source fit the 32-bit integers of TLC:            *)
(*   5368709120 bytes = 10485760 blocks, 8600000000 bytes = 16796875.      *)
(* Sums stay far below 2^63, so int64 wrap-around is not modelled.         *)
(* An entry name is a unique key of the archive (its position).            *)
(***************************************************************************)
EXTENDS Integers, Sequences, FiniteSets

VARIABLES
    pc,                    \* position of the single thread of control
    data,                  \* buildTarPlan: the inventory (NameAndSizes)
    targetSize,            \* buildTarPlan: the budget parameter
    plans,                 \* buildTarPlan: the Plan set being built
    currentPlan,           \* buildTarPlan: *currentPlan
    currentPlanTotalSize,  \* buildTarPlan
    endIndex,              \* buildTarPlan
    i,                     \* buildTarPlan: the loop index
    finished,              \* buildTarPlan
    addToNext,             \* buildTarPlan
    canAddSmall,           \* buildTarPlan
    filename,              \* the source path, a sequence of characters
    archive,               \* the headers of the source archive, in order
    flag,                  \* --targetsize: <<v>> when given, <<>> when not
    flagTargetSize,        \* the package variable targetSize
    filereader,            \* generateSlice: the opened source file
    tarreader,             \* generateSlice: the function-level io.Reader
    tr,                    \* generateSlice: what tar.NewReader was given
    info,                  \* generateSlice: the inventory being read
    osReader,              \* createNewTars: the opened source file
    genericReader,         \* createNewTars: the function-level io.Reader
    tarReader,             \* createNewTars: what tar.NewReader was given
    gzReader,              \* the block-scoped gzip reader of either pass
    pos,                   \* headers consumed by the running tar reader
    files,                 \* createNewTars: the destination files
    twCloses,              \* createNewTars: Close calls per tar writer
    out,                   \* createNewTars: what each tar writer was given
    filenamePtrMap,        \* createNewTars: name -> writer (destination index)
    defers,                \* the deferred calls of the running function
    err                    \* the result of the running function

planVars == <<data, targetSize, plans, currentPlan, currentPlanTotalSize,
              endIndex, i, finished, addToNext, canAddSmall>>

runVars == <<filename, archive, flag, flagTargetSize>>

genVars == <<filereader, tarreader, tr, info>>

tarsVars == <<osReader, genericReader, tarReader, files, twCloses, out,
              filenamePtrMap>>

frameVars == <<gzReader, pos, defers, err>>

vars == <<pc, planVars, runVars, genVars, tarsVars, frameVars>>

(***************************************************************************)
(* Bounds of the planner's inputs.                                         *)
(***************************************************************************)
MaxLen == 6
MaxSize == 5
MaxT == 5

(***************************************************************************)
(* The two budgets of the source, in blocks of 512 bytes: the default of   *)
(* the flag --targetsize (5368709120 bytes) and the local targetSize of    *)
(* split (8600000000 bytes).                                               *)
(***************************************************************************)
DefaultTargetSize == 10485760

SplitTargetSize == 16796875

(***************************************************************************)
(* Types of the source.                                                    *)
(***************************************************************************)
NameAndSize(name, size) == [Name |-> name, Size |-> size]

EmptyPlan == [Pool |-> <<>>]

At(s, k) == s[k + 1]

(***************************************************************************)
(* buildTarPlan                                                            *)
(***************************************************************************)
AppendPool(plan, e) == [plan EXCEPT !.Pool = Append(@, e)]

SeededDropped(d, k) == EmptyPlan

\* currentPlan = &Plan{} followed, under addToNext, by the append of data[i].
Seeded(d, k) == AppendPool(EmptyPlan, At(d, k))

FitsForwardOffByOne(total, size, T) == total + size <= T + 1

FitsBackfillInclusive(total, size, T) == total + size <= T

\* The forward test of line 131.
FitsForward(total, size, T) == total + size <= T

\* The reverse-fill test of line 137.
FitsBackfill(total, size, T) == total + size < T

\* for i := 0; i <= endIndex: the condition fails, return plans.
PlanLoopExit ==
    /\ pc = "plan_for"
    /\ ~(i <= endIndex)
    /\ pc' = "plan_ret"
    /\ UNCHANGED <<planVars, runVars, genVars, tarsVars, frameVars>>

\* if currentPlanTotalSize+data[i].Size <= targetSize { append, add }
PlanForward ==
    /\ pc = "plan_for"
    /\ i <= endIndex
    /\ FitsForward(currentPlanTotalSize, At(data, i).Size, targetSize)
    /\ currentPlan' = AppendPool(currentPlan, At(data, i))
    /\ currentPlanTotalSize' = currentPlanTotalSize + At(data, i).Size
    /\ pc' = "plan_chk"
    /\ UNCHANGED <<data, targetSize, plans, endIndex, i, finished, addToNext,
                   canAddSmall>>
    /\ UNCHANGED <<runVars, genVars, tarsVars, frameVars>>

\* else: enter the reverse fill loop.
PlanOverflow ==
    /\ pc = "plan_for"
    /\ i <= endIndex
    /\ ~FitsForward(currentPlanTotalSize, At(data, i).Size, targetSize)
    /\ pc' = "plan_fill"
    /\ UNCHANGED <<planVars, runVars, genVars, tarsVars, frameVars>>

\* for endIndex >= i { if total+data[endIndex].Size < targetSize { ... } }
PlanBackfillAdd ==
    /\ pc = "plan_fill"
    /\ endIndex >= i
    /\ FitsBackfill(currentPlanTotalSize, At(data, endIndex).Size, targetSize)
    /\ currentPlan' = AppendPool(currentPlan, At(data, endIndex))
    /\ currentPlanTotalSize' = currentPlanTotalSize + At(data, endIndex).Size
    /\ endIndex' = endIndex - 1
    /\ pc' = "plan_fill"
    /\ UNCHANGED <<data, targetSize, plans, i, finished, addToNext, canAddSmall>>
    /\ UNCHANGED <<runVars, genVars, tarsVars, frameVars>>

\* The fill loop ends: by its else branch (canAddSmall = false; break) or by
\* its condition; then addToNext = true.
PlanBackfillStop ==
    /\ pc = "plan_fill"
    /\ ~(/\ endIndex >= i
         /\ FitsBackfill(currentPlanTotalSize, At(data, endIndex).Size, targetSize))
    /\ canAddSmall' = IF endIndex >= i THEN FALSE ELSE canAddSmall
    /\ addToNext' = TRUE
    /\ pc' = "plan_chk"
    /\ UNCHANGED <<data, targetSize, plans, currentPlan, currentPlanTotalSize,
                   endIndex, i, finished>>
    /\ UNCHANGED <<runVars, genVars, tarsVars, frameVars>>

\* The rest of the loop body: if i == endIndex { finished = true }; the
\* closing of the plan; if finished { break }; i++.
PlanClose ==
    /\ pc = "plan_chk"
    /\ LET fin    == finished \/ i = endIndex
           close  == fin \/ ~canAddSmall
           seeded == Seeded(data, i)
       IN /\ finished' = fin
          /\ plans' = IF ~close THEN plans
                      ELSE IF addToNext /\ fin
                           THEN plans \o <<currentPlan, seeded>>
                           ELSE plans \o <<currentPlan>>
          /\ currentPlan' = IF ~close THEN currentPlan
                            ELSE IF addToNext THEN seeded ELSE EmptyPlan
          /\ currentPlanTotalSize' =
                 IF ~close THEN currentPlanTotalSize
                 ELSE IF addToNext THEN At(data, i).Size ELSE 0
          /\ canAddSmall' = IF close THEN TRUE ELSE canAddSmall
          /\ addToNext' = IF close THEN FALSE ELSE addToNext
          /\ i' = IF fin THEN i ELSE i + 1
          /\ pc' = IF fin THEN "plan_ret" ELSE "plan_for"
    /\ UNCHANGED <<data, targetSize, endIndex>>
    /\ UNCHANGED <<runVars, genVars, tarsVars, frameVars>>

\* The locals of buildTarPlan at its entry, for the arguments d and T.
PlanEntry(d, T) ==
    /\ data = d
    /\ targetSize = T
    /\ plans = <<>>
    /\ currentPlan = EmptyPlan
    /\ currentPlanTotalSize = 0
    /\ endIndex = Len(d) - 1
    /\ i = 0
    /\ finished = FALSE
    /\ addToNext = FALSE
    /\ canAddSmall = TRUE

(***************************************************************************)
(* The planner alone, on every size-descending inventory within the bounds.*)
(***************************************************************************)
Descending(sizes) ==
    \A k \in 1..(Len(sizes) - 1) : sizes[k] >= sizes[k + 1]

Inventories ==
    UNION { { [k \in 1..n |-> NameAndSize(k, sizes[k])] :
                sizes \in { s \in [1..n -> 0..MaxSize] : Descending(s) } } :
            n \in 0..MaxLen }

\* Nothing opened, nothing read, nothing deferred.
IdleFrames ==
    /\ filereader = "unopened"
    /\ tarreader = "nil"
    /\ tr = "none"
    /\ info = <<>>
    /\ osReader = "unopened"
    /\ genericReader = "nil"
    /\ tarReader = "none"
    /\ gzReader = "none"
    /\ pos = 0
    /\ files = <<>>
    /\ twCloses = <<>>
    /\ out = <<>>
    /\ filenamePtrMap = <<>>
    /\ defers = <<>>
    /\ err = "none"

InitPlan ==
    /\ pc = "plan_for"
    /\ \E d \in Inventories, T \in 1..MaxT : PlanEntry(d, T)
    /\ filename = <<>>
    /\ archive = <<>>
    /\ flag = <<>>
    /\ flagTargetSize = DefaultTargetSize
    /\ IdleFrames

NextPlan ==
    \/ PlanLoopExit
    \/ PlanForward
    \/ PlanOverflow
    \/ PlanBackfillAdd
    \/ PlanBackfillStop
    \/ PlanClose

SpecPlan == InitPlan /\ [][NextPlan]_vars

(***************************************************************************)
(* Source archives and paths.                                              *)
(***************************************************************************)
MaxEntries == 2
MaxPlans == 2

TypeReg == "TypeReg"

Typeflags == {TypeReg, "TypeDir", "TypeSymlink"}

Header(name, size, typeflag) ==
    [Name |-> name, Size |-> size, Typeflag |-> typeflag]

\* Archives of at most n entries; an entry's name is its position.
Archives(n, sizes) ==
    UNION { { [k \in 1..m |-> Header(k, sz[k], tf[k])] :
                sz \in [1..m -> sizes], tf \in [1..m -> Typeflags] } :
            m \in 0..n }

\* filepath.Ext: the suffix from the last dot of the last path element.
RECURSIVE ExtFrom(_, _)
ExtFrom(path, k) ==
    IF k < 1 \/ path[k] = "/" THEN <<>>
    ELSE IF path[k] = "." THEN SubSeq(path, k, Len(path))
    ELSE ExtFrom(path, k - 1)

Ext(path) == ExtFrom(path, Len(path))

GzExt == <<".", "g", "z">>

Filenames ==
    { <<"a", ".", "t", "a", "r">>,
      <<"a", ".", "t", "a", "r", ".", "g", "z">>,
      <<"a", ".", "g", "z", "/", "b">> }

(***************************************************************************)
(* Deferred calls: pushed by defer, run last-in first-out at return and    *)
(* while a panic unwinds.                                                  *)
(***************************************************************************)
Push(stack, calls) == stack \o calls

Top(stack) == stack[Len(stack)]

Pop(stack) == SubSeq(stack, 1, Len(stack) - 1)

(***************************************************************************)
(* createNewTars                                                           *)
(***************************************************************************)
\* filenamePtrMap[name], nil (0) for a name that is not a key.
Lookup(map, name) == IF name \in DOMAIN map THEN map[name] ELSE 0

\* for _, fn := range plan.Pool { filenamePtrMap[fn.Name] = tw }
RECURSIVE MapPool(_, _, _)
MapPool(map, pool, k) ==
    IF pool = <<>> THEN map
    ELSE MapPool([n \in DOMAIN map \cup {pool[1].Name} |->
                     IF n = pool[1].Name THEN k ELSE map[n]],
                 Tail(pool), k)

CreateDefersNoFileClose(k) == << <<"tw.Close", k>> >>

CreateDefersFileLast(k) == << <<"tw.Close", k>>, <<"file.Close", k>> >>

\* defer file.Close() and then defer tw.Close(), for destination k.
CreateDefers(k) == << <<"file.Close", k>>, <<"tw.Close", k>> >>

IsRegularOrLink(h) == h.Typeflag # "TypeDir"

\* switch header.Typeflag { case tar.TypeReg: ... }
IsRegular(h) == h.Typeflag = TypeReg

\* os.Open fails: return err, nothing deferred yet.
TarsOpenFail ==
    /\ pc = "tars_open"
    /\ err' = "open"
    /\ pc' = "tars_unwind"
    /\ UNCHANGED <<planVars, runVars, genVars, tarsVars, gzReader, pos, defers>>

\* os.Open succeeds; defer osReader.Close().
TarsOpen ==
    /\ pc = "tars_open"
    /\ osReader' = "open"
    /\ defers' = Push(defers, << <<"osReader.Close">> >>)
    /\ pc' = "tars_wire"
    /\ UNCHANGED <<planVars, runVars, genVars, genericReader, tarReader, files,
                   twCloses, out, filenamePtrMap, gzReader, pos, err>>

\* Ext == ".gz" and gzip.NewReader fails: return err.
TarsWireGzipFail ==
    /\ pc = "tars_wire"
    /\ Ext(filename) = GzExt
    /\ err' = "gzip"
    /\ pc' = "tars_unwind"
    /\ UNCHANGED <<planVars, runVars, genVars, tarsVars, gzReader, pos, defers>>

\* Ext == ".gz": the gzip reader is bound to a variable of the if block and
\* deferred closed; genericReader keeps its zero value and is what
\* tar.NewReader gets.
TarsWireGzip ==
    /\ pc = "tars_wire"
    /\ Ext(filename) = GzExt
    /\ gzReader' = "open"
    /\ defers' = Push(defers, << <<"gzip.Close">> >>)
    /\ tarReader' = genericReader
    /\ pc' = "tars_create"
    /\ UNCHANGED <<planVars, runVars, genVars, osReader, genericReader, files,
                   twCloses, out, filenamePtrMap, pos, err>>

\* else: genericReader = osReader; tar.NewReader(genericReader).
TarsWirePlain ==
    /\ pc = "tars_wire"
    /\ Ext(filename) # GzExt
    /\ genericReader' = "osReader"
    /\ tarReader' = "osReader"
    /\ pc' = "tars_create"
    /\ UNCHANGED <<planVars, runVars, genVars, osReader, files, twCloses, out,
                   filenamePtrMap, frameVars>>

\* One turn of for i, plan := range *plans, os.Create failing.
TarsCreateFail ==
    /\ pc = "tars_create"
    /\ Len(files) < Len(plans)
    /\ err' = "create"
    /\ pc' = "tars_unwind"
    /\ UNCHANGED <<planVars, runVars, genVars, tarsVars, gzReader, pos, defers>>

\* One turn of the range loop: the file, its tar writer, the two defers and
\* the map entries of the plan's pool.
TarsCreate ==
    /\ pc = "tars_create"
    /\ Len(files) < Len(plans)
    /\ LET k == Len(files) + 1
       IN /\ files' = Append(files, "open")
          /\ twCloses' = Append(twCloses, 0)
          /\ out' = Append(out, <<>>)
          /\ defers' = Push(defers, CreateDefers(k))
          /\ filenamePtrMap' = MapPool(filenamePtrMap, plans[k].Pool, k)
    /\ pc' = "tars_create"
    /\ UNCHANGED <<planVars, runVars, genVars, osReader, genericReader,
                   tarReader, gzReader, pos, err>>

\* The range loop is over.
TarsCreateDone ==
    /\ pc = "tars_create"
    /\ Len(files) = Len(plans)
    /\ pc' = "tars_next"
    /\ UNCHANGED <<planVars, runVars, genVars, tarsVars, frameVars>>

\* tarReader.Next() on a tar reader whose io.Reader is nil: the read panics.
TarsNextPanic ==
    /\ pc = "tars_next"
    /\ tarReader = "nil"
    /\ err' = "panic"
    /\ pc' = "tars_unwind"
    /\ UNCHANGED <<planVars, runVars, genVars, tarsVars, gzReader, pos, defers>>

\* case err == io.EOF: return nil
TarsNextEOF ==
    /\ pc = "tars_next"
    /\ tarReader # "nil"
    /\ pos = Len(archive)
    /\ err' = "nil"
    /\ pc' = "tars_unwind"
    /\ UNCHANGED <<planVars, runVars, genVars, tarsVars, gzReader, pos, defers>>

\* case err != nil: return err (truncated or malformed input, I/O error)
TarsNextErr ==
    /\ pc = "tars_next"
    /\ tarReader # "nil"
    /\ err' = "read"
    /\ pc' = "tars_unwind"
    /\ UNCHANGED <<planVars, runVars, genVars, tarsVars, gzReader, pos, defers>>

\* A header of another type than TypeReg: no case of the switch applies.
TarsSkip ==
    /\ pc = "tars_next"
    /\ tarReader # "nil"
    /\ pos < Len(archive)
    /\ ~IsRegular(archive[pos + 1])
    /\ pos' = pos + 1
    /\ pc' = "tars_next"
    /\ UNCHANGED <<planVars, runVars, genVars, tarsVars, gzReader, defers, err>>

\* mw == nil: return fmt.Errorf("Missing writer ptr for file %s", ...)
TarsMissingWriter ==
    /\ pc = "tars_next"
    /\ tarReader # "nil"
    /\ pos < Len(archive)
    /\ IsRegular(archive[pos + 1])
    /\ Lookup(filenamePtrMap, archive[pos + 1].Name) = 0
    /\ err' = "routing"
    /\ pc' = "tars_unwind"
    /\ UNCHANGED <<planVars, runVars, genVars, tarsVars, gzReader, pos, defers>>

\* mw.WriteHeader(header) fails: return err
TarsWriteHeaderFail ==
    /\ pc = "tars_next"
    /\ tarReader # "nil"
    /\ pos < Len(archive)
    /\ IsRegular(archive[pos + 1])
    /\ Lookup(filenamePtrMap, archive[pos + 1].Name) # 0
    /\ err' = "write"
    /\ pc' = "tars_unwind"
    /\ UNCHANGED <<planVars, runVars, genVars, tarsVars, gzReader, pos, defers>>

\* mw.WriteHeader(header) succeeds.
TarsWriteHeader ==
    /\ pc = "tars_next"
    /\ tarReader # "nil"
    /\ pos < Len(archive)
    /\ IsRegular(archive[pos + 1])
    /\ LET mw == Lookup(filenamePtrMap, archive[pos + 1].Name)
       IN /\ mw # 0
          /\ out' = [out EXCEPT ![mw] = Append(@, <<"header", archive[pos + 1]>>)]
    /\ pc' = "tars_copy"
    /\ UNCHANGED <<planVars, runVars, genVars, osReader, genericReader,
                   tarReader, files, twCloses, filenamePtrMap, frameVars>>

\* io.Copy(mw, tarReader) fails on the read or the write side: return err.
\* Part of the payload may have reached the writer.
TarsCopyFail ==
    /\ pc = "tars_copy"
    /\ LET mw == Lookup(filenamePtrMap, archive[pos + 1].Name)
       IN out' = [out EXCEPT ![mw] = Append(@, <<"partial", pos + 1>>)]
    /\ err' = "copy"
    /\ pc' = "tars_unwind"
    /\ UNCHANGED <<planVars, runVars, genVars, osReader, genericReader,
                   tarReader, files, twCloses, filenamePtrMap, gzReader, pos,
                   defers>>

\* io.Copy(mw, tarReader) copies the payload of the current entry.
TarsCopy ==
    /\ pc = "tars_copy"
    /\ LET mw == Lookup(filenamePtrMap, archive[pos + 1].Name)
       IN out' = [out EXCEPT ![mw] = Append(@, <<"payload", pos + 1>>)]
    /\ pos' = pos + 1
    /\ pc' = "tars_next"
    /\ UNCHANGED <<planVars, runVars, genVars, osReader, genericReader,
                   tarReader, files, twCloses, filenamePtrMap, gzReader, defers,
                   err>>

\* The effect of one deferred call of createNewTars.
TarsRunDefer ==
    /\ pc = "tars_unwind"
    /\ defers # <<>>
    /\ LET call == Top(defers)
       IN /\ osReader' = IF call[1] = "osReader.Close" THEN "closed" ELSE osReader
          /\ gzReader' = IF call[1] = "gzip.Close" THEN "closed" ELSE gzReader
          /\ files' = IF call[1] = "file.Close"
                      THEN [files EXCEPT ![call[2]] = "closed"] ELSE files
          /\ twCloses' = IF call[1] = "tw.Close"
                         THEN [twCloses EXCEPT ![call[2]] = @ + 1] ELSE twCloses
    /\ defers' = Pop(defers)
    /\ pc' = "tars_unwind"
    /\ UNCHANGED <<planVars, runVars, genVars, genericReader, tarReader, out,
                   filenamePtrMap, pos, err>>

\* Every deferred call has run: createNewTars has returned, or the panic
\* leaves it.
TarsReturn ==
    /\ pc = "tars_unwind"
    /\ defers = <<>>
    /\ pc' = IF err = "panic" THEN "crash" ELSE "tars_ret"
    /\ UNCHANGED <<planVars, runVars, genVars, tarsVars, frameVars>>

(***************************************************************************)
(* createNewTars alone, on every archive and Plan set within the bounds.   *)
(* The pools are disjoint and may leave names out or be empty.             *)
(***************************************************************************)
RECURSIVE SeqOfSet(_)
SeqOfSet(S) ==
    IF S = {} THEN <<>>
    ELSE LET m == CHOOSE x \in S : \A y \in S : x <= y
         IN <<m>> \o SeqOfSet(S \ {m})

PoolOf(names) ==
    LET order == SeqOfSet(names)
    IN [k \in 1..Len(order) |-> NameAndSize(order[k], 1)]

PlanSets ==
    UNION { { [k \in 1..n |-> [Pool |-> PoolOf({e \in 1..MaxEntries : f[e] = k})]] :
                f \in [1..MaxEntries -> 0..n] } :
            n \in 0..MaxPlans }

InitTars ==
    /\ pc = "tars_open"
    /\ filename \in Filenames
    /\ archive \in Archives(MaxEntries, {1})
    /\ plans \in PlanSets
    /\ data = <<>>
    /\ targetSize = 1
    /\ currentPlan = EmptyPlan
    /\ currentPlanTotalSize = 0
    /\ endIndex = -1
    /\ i = 0
    /\ finished = FALSE
    /\ addToNext = FALSE
    /\ canAddSmall = TRUE
    /\ flag = <<>>
    /\ flagTargetSize = DefaultTargetSize
    /\ IdleFrames

NextTars ==
    \/ TarsOpenFail
    \/ TarsOpen
    \/ TarsWireGzipFail
    \/ TarsWireGzip
    \/ TarsWirePlain
    \/ TarsCreateFail
    \/ TarsCreate
    \/ TarsCreateDone
    \/ TarsNextPanic
    \/ TarsNextEOF
    \/ TarsNextErr
    \/ TarsSkip
    \/ TarsMissingWriter
    \/ TarsWriteHeaderFail
    \/ TarsWriteHeader
    \/ TarsCopyFail
    \/ TarsCopy
    \/ TarsRunDefer
    \/ TarsReturn

SpecTars == InitTars /\ [][NextTars]_vars

(***************************************************************************)
(* generateSlice                                                           *)
(***************************************************************************)
\* os.Open fails: return NameAndSizes{}, err
GenOpenFail ==
    /\ pc = "gen_open"
    /\ err' = "open"
    /\ pc' = "gen_unwind"
    /\ UNCHANGED <<planVars, runVars, genVars, tarsVars, gzReader, pos, defers>>

\* os.Open succeeds; defer filereader.Close().
GenOpen ==
    /\ pc = "gen_open"
    /\ filereader' = "open"
    /\ defers' = Push(defers, << <<"filereader.Close">> >>)
    /\ pc' = "gen_wire"
    /\ UNCHANGED <<planVars, runVars, tarreader, tr, info, tarsVars, gzReader,
                   pos, err>>

\* Ext == ".gz" and gzip.NewReader fails: return NameAndSizes{}, err
GenWireGzipFail ==
    /\ pc = "gen_wire"
    /\ Ext(filename) = GzExt
    /\ err' = "gzip"
    /\ pc' = "gen_unwind"
    /\ UNCHANGED <<planVars, runVars, genVars, tarsVars, gzReader, pos, defers>>

\* Ext == ".gz": tarreader, err := gzip.NewReader(filereader) declares a new
\* tarreader in the if block; the function-level tarreader keeps its zero
\* value and is what tar.NewReader gets.
GenWireGzip ==
    /\ pc = "gen_wire"
    /\ Ext(filename) = GzExt
    /\ gzReader' = "open"
    /\ defers' = Push(defers, << <<"gzip.Close">> >>)
    /\ tr' = tarreader
    /\ pc' = "gen_next"
    /\ UNCHANGED <<planVars, runVars, filereader, tarreader, info, tarsVars,
                   pos, err>>

\* else: tarreader = filereader; tr := tar.NewReader(tarreader)
GenWirePlain ==
    /\ pc = "gen_wire"
    /\ Ext(filename) # GzExt
    /\ tarreader' = "filereader"
    /\ tr' = "filereader"
    /\ pc' = "gen_next"
    /\ UNCHANGED <<planVars, runVars, filereader, info, tarsVars, frameVars>>

\* tr.Next() on a tar reader whose io.Reader is nil: the read panics.
GenNextPanic ==
    /\ pc = "gen_next"
    /\ tr = "nil"
    /\ err' = "panic"
    /\ pc' = "gen_unwind"
    /\ UNCHANGED <<planVars, runVars, genVars, tarsVars, gzReader, pos, defers>>

\* case err == io.EOF: return info, nil
GenNextEOF ==
    /\ pc = "gen_next"
    /\ tr # "nil"
    /\ pos = Len(archive)
    /\ err' = "nil"
    /\ pc' = "gen_unwind"
    /\ UNCHANGED <<planVars, runVars, genVars, tarsVars, gzReader, pos, defers>>

\* case err != nil: return NameAndSizes{}, err
GenNextErr ==
    /\ pc = "gen_next"
    /\ tr # "nil"
    /\ err' = "read"
    /\ info' = <<>>
    /\ pc' = "gen_unwind"
    /\ UNCHANGED <<planVars, runVars, filereader, tarreader, tr, tarsVars,
                   gzReader, pos, defers>>

\* info = append(info, NameAndSize{header.Name, fi.Size()}), for a header of
\* any type.  (tar.Reader.Next returns a header whenever err is nil, so the
\* case header == nil is never taken.)
GenNextHeader ==
    /\ pc = "gen_next"
    /\ tr # "nil"
    /\ pos < Len(archive)
    /\ info' = Append(info, NameAndSize(archive[pos + 1].Name, archive[pos + 1].Size))
    /\ pos' = pos + 1
    /\ pc' = "gen_next"
    /\ UNCHANGED <<planVars, runVars, filereader, tarreader, tr, tarsVars,
                   gzReader, defers, err>>

\* The effect of one deferred call of generateSlice.
GenRunDefer ==
    /\ pc = "gen_unwind"
    /\ defers # <<>>
    /\ LET call == Top(defers)
       IN /\ filereader' = IF call[1] = "filereader.Close" THEN "closed"
                           ELSE filereader
          /\ gzReader' = IF call[1] = "gzip.Close" THEN "closed" ELSE gzReader
    /\ defers' = Pop(defers)
    /\ pc' = "gen_unwind"
    /\ UNCHANGED <<planVars, runVars, tarreader, tr, info, tarsVars, pos, err>>

\* Every deferred call has run: generateSlice has returned, or the panic
\* leaves it and ends the process.
GenReturn ==
    /\ pc = "gen_unwind"
    /\ defers = <<>>
    /\ pc' = IF err = "panic" THEN "crash" ELSE "gen_ret"
    /\ UNCHANGED <<planVars, runVars, genVars, tarsVars, frameVars>>

(***************************************************************************)
(* rootCmd and split                                                       *)
(***************************************************************************)
\* The package variable targetSize once cobra has parsed the flags: the
\* value of --targetsize, or the default registered by init().
ParsedTargetSize(f, default) == IF f = <<>> THEN default ELSE f[1]

\* rootCmd.Run: the flags are parsed, split(args[0]) is called and calls
\* generateSlice(filename).
RootCmdRun ==
    /\ pc = "main"
    /\ flagTargetSize' = ParsedTargetSize(flag, flagTargetSize)
    /\ pc' = "gen_open"
    /\ UNCHANGED <<planVars, filename, archive, flag, genVars, tarsVars,
                   frameVars>>

\* if err != nil { log.Fatal(err) }, after generateSlice.
SplitGenFatal ==
    /\ pc = "gen_ret"
    /\ err # "nil"
    /\ pc' = "split_fatal"
    /\ UNCHANGED <<planVars, runVars, genVars, tarsVars, frameVars>>

\* The orders sort.Sort(sort.Reverse(data)) can leave: sort.Sort is not
\* stable, so every size-descending permutation.
SortedDescending(seq) ==
    { [k \in 1..Len(seq) |-> seq[p[k]]] :
        p \in { q \in [1..Len(seq) -> 1..Len(seq)] :
                  /\ \A a, b \in 1..Len(seq) : a # b => q[a] # q[b]
                  /\ \A a \in 1..(Len(seq) - 1) :
                        seq[q[a]].Size >= seq[q[a + 1]].Size } }

\* sort.Sort(sort.Reverse(data)); targetSize := int64(8600000000);
\* buildTarPlan(data, targetSize) is entered.
SplitPlan ==
    /\ pc = "gen_ret"
    /\ err = "nil"
    /\ \E d \in SortedDescending(info) :
          /\ data' = d
          /\ endIndex' = Len(d) - 1
    /\ targetSize' = SplitTargetSize
    /\ plans' = <<>>
    /\ currentPlan' = EmptyPlan
    /\ currentPlanTotalSize' = 0
    /\ i' = 0
    /\ finished' = FALSE
    /\ addToNext' = FALSE
    /\ canAddSmall' = TRUE
    /\ pc' = "plan_for"
    /\ UNCHANGED <<runVars, genVars, tarsVars, frameVars>>

\* err = createNewTars(filename, &plans) is entered.
SplitCreateTars ==
    /\ pc = "plan_ret"
    /\ gzReader' = "none"
    /\ pos' = 0
    /\ err' = "none"
    /\ pc' = "tars_open"
    /\ UNCHANGED <<planVars, runVars, genVars, tarsVars, defers>>

\* if err != nil { log.Fatal(err) }, after createNewTars.
SplitTarsFatal ==
    /\ pc = "tars_ret"
    /\ err # "nil"
    /\ pc' = "split_fatal"
    /\ UNCHANGED <<planVars, runVars, genVars, tarsVars, frameVars>>

\* split returns.
SplitReturn ==
    /\ pc = "tars_ret"
    /\ err = "nil"
    /\ pc' = "split_ret"
    /\ UNCHANGED <<planVars, runVars, genVars, tarsVars, frameVars>>

(***************************************************************************)
(* A run of the command.  With a ".gz" source generateSlice panics, so the *)
(* gzip branch of createNewTars is not reached in a run, and a name read   *)
(* by the second pass is always a key of the map built from the first; the *)
(* actions of those paths belong to SpecTars alone.                        *)
(***************************************************************************)
MaxRunEntries == 2

RunSizes == {0, 1, SplitTargetSize, SplitTargetSize + 1}

Flags == {<<>>, <<1>>, <<DefaultTargetSize>>, <<SplitTargetSize>>}

Init ==
    /\ pc = "main"
    /\ filename \in Filenames
    /\ archive \in Archives(MaxRunEntries, RunSizes)
    /\ flag \in Flags
    /\ flagTargetSize = DefaultTargetSize
    /\ PlanEntry(<<>>, 0)
    /\ IdleFrames

Next ==
    \/ RootCmdRun
    \/ GenOpenFail
    \/ GenOpen
    \/ GenWireGzipFail
    \/ GenWireGzip
    \/ GenWirePlain
    \/ GenNextPanic
    \/ GenNextEOF
    \/ GenNextErr
    \/ GenNextHeader
    \/ GenRunDefer
    \/ GenReturn
    \/ SplitGenFatal
    \/ SplitPlan
    \/ PlanLoopExit
    \/ PlanForward
    \/ PlanOverflow
    \/ PlanBackfillAdd
    \/ PlanBackfillStop
    \/ PlanClose
    \/ SplitCreateTars
    \/ TarsOpenFail
    \/ TarsOpen
    \/ TarsWirePlain
    \/ TarsCreateFail
    \/ TarsCreate
    \/ TarsCreateDone
    \/ TarsNextEOF
    \/ TarsNextErr
    \/ TarsSkip
    \/ TarsWriteHeaderFail
    \/ TarsWriteHeader
    \/ TarsCopyFail
    \/ TarsCopy
    \/ TarsRunDefer
    \/ TarsReturn
    \/ SplitTarsFatal
    \/ SplitReturn

Spec == Init /\ [][Next]_vars

(***************************************************************************)
(* Properties of the Plan set returned by buildTarPlan.                    *)
(***************************************************************************)
RECURSIVE SumSizes(_)
SumSizes(pool) ==
    IF pool = <<>> THEN 0 ELSE pool[1].Size + SumSizes(Tail(pool))

RECURSIVE Flatten(_)
Flatten(ps) ==
    IF ps = <<>> THEN <<>> ELSE ps[1].Pool \o Flatten(Tail(ps))

Occurrences(seq, e) == Cardinality({k \in 1..Len(seq) : seq[k] = e})

\* The 1-based inventory positions of a pool's entries (names are unique).
PoolIndices(pool) ==
    [k \in 1..Len(pool) |-> CHOOSE j \in 1..Len(data) : data[j] = pool[k]]

AscendingRun(idx, lo, hi) == \A k \in lo..(hi - 1) : idx[k + 1] = idx[k] + 1

DescendingRun(idx, lo, hi) == \A k \in lo..(hi - 1) : idx[k + 1] = idx[k] - 1

\* A run of consecutive ascending indices, then one of consecutive descending.
ForwardThenTail(idx) ==
    \E m \in 0..Len(idx) :
        /\ AscendingRun(idx, 1, m)
        /\ DescendingRun(idx, m + 1, Len(idx))

PlanReturned == pc = "plan_ret"

\* C1: when buildTarPlan returns on a non-empty inventory, every inventory
\* entry occurs exactly once in the concatenation of all Plans' pools, and
\* the pools hold nothing else.
C1_Coverage ==
    (PlanReturned /\ Len(data) > 0) =>
        /\ Len(Flatten(plans)) = Len(data)
        /\ \A k \in 1..Len(data) : Occurrences(Flatten(plans), data[k]) = 1

\* C1 witness: a returned Plan set of three Plans over five entries.
C1_Witness ==
    /\ PlanReturned
    /\ Len(data) = 5
    /\ Len(plans) = 3
    /\ \A p \in 1..3 : Len(plans[p].Pool) >= 1

\* C2: every returned Plan sums to at most targetSize, unless its first
\* entry alone is larger than targetSize, and then it holds that entry only.
C2_Budget ==
    PlanReturned =>
        \A p \in 1..Len(plans) :
            \/ SumSizes(plans[p].Pool) <= targetSize
            \/ /\ Len(plans[p].Pool) = 1
               /\ plans[p].Pool[1].Size > targetSize

\* C2 witness: a returned Plan set with an oversized single-entry Plan and a
\* Plan of several entries filled exactly to the budget.
C2_Witness ==
    /\ PlanReturned
    /\ \E p \in 1..Len(plans) :
          /\ Len(plans[p].Pool) = 1
          /\ plans[p].Pool[1].Size > targetSize
    /\ \E p \in 1..Len(plans) :
          /\ Len(plans[p].Pool) >= 2
          /\ SumSizes(plans[p].Pool) = targetSize

\* C3 (as claimed): an inventory of exactly one entry larger than targetSize
\* yields exactly one Plan, holding that entry.
C3_OversizedSingle ==
    (PlanReturned /\ Len(data) = 1 /\ data[1].Size > targetSize) =>
        /\ Len(plans) = 1
        /\ plans[1].Pool = <<data[1]>>

\* C10 (as claimed): every Plan of the returned Plan set has an entry.
C10_NoEmptyPlan ==
    PlanReturned => \A p \in 1..Len(plans) : Len(plans[p].Pool) >= 1

\* C9: the reverse fill takes the entry at endIndex and only that one, lowers
\* endIndex by one, and only when the total stays strictly below targetSize;
\* it stops at an entry still unassigned that fails the strict test; the plan
\* is then closed and data[i] opens the next one; a closed plan that sums to
\* targetSize is a forward run alone; every pool is a forward run followed by
\* a descending tail run.
C9_BackfillStep ==
    (endIndex' # endIndex \/ (pc = "plan_fill" /\ pc' = "plan_fill")) =>
        /\ pc = "plan_fill"
        /\ endIndex' = endIndex - 1
        /\ endIndex >= i
        /\ currentPlan'.Pool = Append(currentPlan.Pool, At(data, endIndex))
        /\ currentPlanTotalSize' = currentPlanTotalSize + At(data, endIndex).Size
        /\ currentPlanTotalSize' < targetSize

C9_BackfillStops ==
    (pc = "plan_fill" /\ pc' # "plan_fill") =>
        /\ endIndex >= i
        /\ currentPlanTotalSize + At(data, endIndex).Size >= targetSize
        /\ endIndex' = endIndex
        /\ pc' = "plan_chk"
        /\ addToNext'

C9_CloseAndSeed ==
    (pc = "plan_chk" /\ addToNext) =>
        /\ Len(plans') >= Len(plans) + 1
        /\ plans'[Len(plans) + 1] = currentPlan
        /\ currentPlan'.Pool = <<At(data, i)>>
        /\ currentPlanTotalSize' = At(data, i).Size
        /\ pc' = "plan_ret" =>
              /\ Len(plans') = Len(plans) + 2
              /\ plans'[Len(plans) + 2] = currentPlan'

C9_Shape ==
    /\ ForwardThenTail(PoolIndices(currentPlan.Pool))
    /\ \A p \in 1..Len(plans) :
          /\ ForwardThenTail(PoolIndices(plans[p].Pool))
          /\ SumSizes(plans[p].Pool) = targetSize =>
                AscendingRun(PoolIndices(plans[p].Pool), 1, Len(plans[p].Pool))

C9_BackfillRule ==
    /\ [][C9_BackfillStep /\ C9_BackfillStops /\ C9_CloseAndSeed]_vars
    /\ []C9_Shape

\* C9 witness: a returned Plan whose pool is inventory entry 1 followed by
\* the tail entries 5 and 4, each taken from the end by the reverse fill.
C9_Witness ==
    /\ PlanReturned
    /\ Len(data) = 5
    /\ Len(plans) >= 2
    /\ PoolIndices(plans[1].Pool) = <<1, 5, 4>>
    /\ PoolIndices(plans[2].Pool)[1] = 2

(***************************************************************************)
(* Properties of createNewTars.                                            *)
(***************************************************************************)
PoolNames(plan) == {plan.Pool[k].Name : k \in 1..Len(plan.Pool)}

\* What destination k must hold: header then payload of every regular-file
\* entry of the source whose name is in Plan k, in source order.
RECURSIVE Routed(_, _)
Routed(k, n) ==
    IF n = 0 THEN <<>>
    ELSE Routed(k, n - 1) \o
         (IF archive[n].Typeflag = TypeReg /\ archive[n].Name \in PoolNames(plans[k])
          THEN << <<"header", archive[n]>>, <<"payload", n>> >>
          ELSE <<>>)

TarsReturned == pc = "tars_ret"

TarsLeft == TarsReturned \/ (pc = "crash" /\ tarReader # "none")

\* C4: when createNewTars returns nil there is one destination per Plan, and
\* destination k was given exactly the regular-file entries of the source
\* named in Plan k, each once, header then payload, in source order.
C4_ExactOnceRouting ==
    (TarsReturned /\ err = "nil") =>
        /\ Len(out) = Len(plans)
        /\ \A k \in 1..Len(plans) : out[k] = Routed(k, Len(archive))

\* C4 witness: a successful run over a directory and a regular file, the
\* file written to the second of two destinations and nothing to the first.
C4_Witness ==
    /\ pc = "tars_ret"
    /\ err = "nil"
    /\ Len(archive) = 2
    /\ archive[1].Typeflag = "TypeDir"
    /\ archive[2].Typeflag = TypeReg
    /\ Len(plans) = 2
    /\ out[1] = <<>>
    /\ out[2] = << <<"header", archive[2]>>, <<"payload", 2>> >>

\* C5: once createNewTars has returned (or a panic has left it), every
\* destination file it opened is closed and the source file is not open.
C5_ResourceSafety ==
    TarsLeft =>
        /\ osReader # "open"
        /\ \A k \in 1..Len(files) : files[k] = "closed"

\* C5 witness: a run that failed while copying a payload, with two
\* destinations opened, has returned.
C5_Witness ==
    /\ pc = "tars_ret"
    /\ err = "copy"
    /\ Len(files) = 2
    /\ osReader = "closed"

\* C8: each tar writer is closed exactly once, by a deferred call, while its
\* file is still open; nothing is written through a closed writer; a file
\* is closed only after its writer; the source is closed after every
\* destination file and writer.
C8_WriterClose ==
    \A k \in 1..Len(files) :
        twCloses'[k] # twCloses[k] =>
            /\ pc = "tars_unwind"
            /\ twCloses[k] = 0
            /\ twCloses'[k] = 1
            /\ files[k] = "open"

C8_NoWriteAfterClose ==
    \A k \in 1..Len(files) : out'[k] # out[k] => twCloses[k] = 0

C8_FileAfterWriter ==
    \A k \in 1..Len(files) :
        (files[k] = "open" /\ files'[k] = "closed") => twCloses[k] = 1

C8_SourceLast ==
    (osReader = "open" /\ osReader' = "closed") =>
        \A k \in 1..Len(files) : files[k] = "closed" /\ twCloses[k] = 1

C8_ClosedOnce ==
    TarsLeft => \A k \in 1..Len(files) : twCloses[k] = 1

C8_FinalizationOrder ==
    /\ [][/\ C8_WriterClose
          /\ C8_NoWriteAfterClose
          /\ C8_FileAfterWriter
          /\ C8_SourceLast]_vars
    /\ []C8_ClosedOnce

\* C8 witness: a run that failed writing a header after an entry had been
\* copied has returned with both of its writers closed.
C8_Witness ==
    /\ pc = "tars_ret"
    /\ err = "write"
    /\ Len(files) = 2
    /\ \E k \in 1..2 : Len(out[k]) = 2
    /\ \A k \in 1..2 : twCloses[k] = 1 /\ files[k] = "closed"

(***************************************************************************)
(* Properties of a run.                                                    *)
(***************************************************************************)
\* C6 (as claimed): for a source whose extension is ".gz", the reader the
\* tar parser is built on is the decompressed stream, in generateSlice and
\* in createNewTars.
C6_DecompressedParsed ==
    Ext(filename) = GzExt =>
        /\ tr # "none" => tr = "gzip"
        /\ tarReader # "none" => tarReader = "gzip"

\* C7 (as claimed): the budget buildTarPlan is called with is the value given
\* with --targetsize, and the default of 5 GB when the flag is not given.
C7_ConfiguredBudget ==
    (pc \in {"plan_for", "plan_fill", "plan_chk", "plan_ret"}) =>
        targetSize = (IF flag = <<>> THEN DefaultTargetSize ELSE flag[1])

====
